---- MODULE Spec2Model ----
(***************************************************************************)
(* Model of kernel/bio.c (the hashed buffer cache) and kernel/kalloc.c     *)
(* (the reference-counted page allocator with copy-on-write resolution).   *)
(*                                                                         *)
(* Granularity.  In bio.c every acquire() of a spinlock and every          *)
(* acquiresleep() is a step of its own (the step is enabled only when the  *)
(* lock is free); the code that follows it, up to the next acquire, is the *)
(* next step.  Threads are kernel execution contexts.                      *)
(***************************************************************************)
EXTENDS Integers, Sequences, FiniteSets, TLC

\* ------------------------------------------------------------------ sizes
NThreads == 2
NBUF == 2
NBUCKET == 2
MaxDev == 0
MaxBlock == 2
MaxTicks == 1
MaxCalls == 2
MaxPins == 1
\* (uint)-1 of line 118.  It stands for 0xffffffff: the model checker's integers end at
\* 2^31 - 1, and no refcnt or timestamp of the model comes near either value.
UintMax == 2147483647

Threads == 1..NThreads
NoThread == 1 - 1
\* NBUF is a build parameter (param.h).  The scenario of section 8 of the specification is
\* stated for a build with NBUF = 4; the variable nbuf carries the build's NBUF and never
\* changes, and the arrays of the model have room for the larger of the two pools.
ScenarioNBUF == 4
PoolMax == IF NBUF > ScenarioNBUF THEN NBUF ELSE ScenarioNBUF
Bufs == 0..(PoolMax - 1)
NoBuf == PoolMax
Buckets == 0..(NBUCKET - 1)
Devs == 0..MaxDev
Blocks == 0..MaxBlock
\* the blocks a scenario of the specification asks for: 1 .. NBUF + 1
ScenarioBlocks == 1..(ScenarioNBUF + 1)
Keys == Devs \X (Blocks \cup ScenarioBlocks)

HASH(blockno) == blockno % NBUCKET

VARIABLES
  nbuf,        \* NBUF of the build
  script,      \* the position of a scenario's driver (NoScript when threads run freely)
  size,        \* bcache.size
  buf,         \* bcache.buf[]: dev, blockno, valid, refcnt, timestamp
  buckets,     \* bcache.buckets[i].next ... : the list of bucket i, head first
  locks,       \* bcache.locks[i]: holder or NoThread
  lock,        \* bcache.lock
  hashlock,    \* bcache.hashlock
  sleeplock,   \* buf.lock (sleep lock): holder or NoThread
  ticks,       \* extern uint ticks
  pc,          \* each thread's position
  loc,         \* each thread's locals: dev, blockno, idx, i, b
  held,        \* the buffers bread has returned to the thread, not yet passed to brelse
  pinned,      \* outstanding bpin calls per buffer
  calls,       \* bread calls a thread has started
  inits,       \* history: how often a buffer was initialised for a key (lines 101-104, 137-140)
  reads,       \* history: virtio_disk_rw(b, 0) calls per key
  writes       \* history: virtio_disk_rw(b, 1) was called on the buffer

biovars == <<size, buf, buckets, locks, lock, hashlock, sleeplock, ticks, pc, loc,
             held, pinned, calls, inits, reads, writes>>

\* ------------------------------------------------------------------ kalloc.c: state
NProcs == 2
NFrames == 3
MaxRefs == 2
JunkFree == 1
JunkAlloc == 5

Procs == 1..NProcs
\* the page frames between end and PHYSTOP; NoFrame is the null pointer
Frames == 1..NFrames
NoFrame == 1 - 1
UserVals == {10, 11}

VARIABLES
  freelist,    \* kmem.freelist, head first
  cnt,         \* page_ref_list[].cnt
  data,        \* the contents of each frame
  pte,         \* each process's page-table entry for its one user page: pa, v, w, cow
  kpages,      \* the frames a process has from kalloc and has not mapped or freed
  kpc,         \* each process's position in kalloc.c
  kloc,        \* each process's locals and the value its last call returned
  nkref,       \* history: successful krefpage calls on the frame since kalloc returned it
  nkfree,      \* history: kfree calls that have decremented the frame's count since then
  pushes       \* history: pushes of the frame onto the free list since then

kvars == <<freelist, cnt, data, pte, kpages, kpc, kloc, nkref, nkfree, pushes>>

ZeroBuf == [dev |-> 0, blockno |-> 0, valid |-> 0, refcnt |-> 0, timestamp |-> 0]
NoLoc == [dev |-> 0, blockno |-> 0, idx |-> 0, i |-> 0, b |-> NoBuf]

\* binit: locks initialised, size 0; bcache is zero-initialised static storage.
binit ==
  /\ size = 0
  /\ buf = [b \in Bufs |-> ZeroBuf]
  /\ buckets = [i \in Buckets |-> << >>]
  /\ locks = [i \in Buckets |-> NoThread]
  /\ lock = NoThread
  /\ hashlock = NoThread
  /\ sleeplock = [b \in Bufs |-> NoThread]

ThreadsInit ==
  /\ ticks = 0
  /\ pc = [t \in Threads |-> "idle"]
  /\ loc = [t \in Threads |-> NoLoc]
  /\ held = [t \in Threads |-> {}]
  /\ pinned = [b \in Bufs |-> 0]
  /\ calls = [t \in Threads |-> 0]
  /\ inits = [k \in Keys |-> 0]
  /\ reads = [k \in Keys |-> 0]
  /\ writes = [b \in Bufs |-> 0]

BioInit == binit /\ ThreadsInit

\* ------------------------------------------------------------------ helpers
KeyOf(b) == <<buf[b].dev, buf[b].blockno>>
Claimed == {b \in Bufs : b < size}
Matches(b, dev, blockno) == buf[b].dev = dev /\ buf[b].blockno = blockno

\* The position of the first buffer of the list with the key, or 0 (lines 86-87, 120-122).
FirstMatch(list, dev, blockno) ==
  IF \E j \in 1..Len(list) : Matches(list[j], dev, blockno)
    THEN CHOOSE j \in 1..Len(list) :
           /\ Matches(list[j], dev, blockno)
           /\ \A k \in 1..(j - 1) : ~Matches(list[k], dev, blockno)
    ELSE 0

\* Mutant: the eviction scan never looks for the wanted key again.
Recheck_Never(idx, blockno) == FALSE

\* Line 122: the eviction scan looks for the wanted key only in the key's own bucket.
Recheck(idx, blockno) == idx = HASH(blockno)

\* Mutant: among equal timestamps the last buffer of the list wins.
Evictable_LastWins(b, mintimestamp) == buf[b].refcnt = 0 /\ buf[b].timestamp <= mintimestamp

\* Mutant: the victim is chosen by timestamp alone.
Evictable_AnyRef(b, mintimestamp) == buf[b].timestamp < mintimestamp

\* Line 129: a buffer may become the victim.
Evictable(b, mintimestamp) == buf[b].refcnt = 0 /\ buf[b].timestamp < mintimestamp

\* Mutant: the scan keeps the first unreferenced buffer it meets.
RECURSIVE ScanVictim_FirstFree(_, _, _, _)
ScanVictim_FirstFree(list, j, minpos, mintimestamp) ==
  IF j > Len(list) THEN minpos
  ELSE IF buf[list[j]].refcnt = 0 /\ minpos = 0
         THEN ScanVictim_FirstFree(list, j + 1, j, buf[list[j]].timestamp)
         ELSE ScanVictim_FirstFree(list, j + 1, minpos, mintimestamp)

\* Lines 118-134: the scan of one bucket for the victim; mintimestamp starts at (uint)-1.
\* The result is the position of minb in the list, 0 when there is none.
RECURSIVE ScanVictim(_, _, _, _)
ScanVictim(list, j, minpos, mintimestamp) ==
  IF j > Len(list) THEN minpos
  ELSE IF Evictable(list[j], mintimestamp)
         THEN ScanVictim(list, j + 1, j, buf[list[j]].timestamp)
         ELSE ScanVictim(list, j + 1, minpos, mintimestamp)

\* Mutant: the victim stays in the list of its old bucket.
Remove_Keep(list, j) == list

\* line 143
Remove(list, j) == SubSeq(list, 1, j - 1) \o SubSeq(list, j + 1, Len(list))

\* Mutant: holdingsleep only asks whether the lock is taken.
holdingsleep_Any(t, b) == sleeplock[b] # NoThread

\* holdingsleep(&b->lock)
holdingsleep(t, b) == sleeplock[b] = t

\* Mutant: bread reads the disk whatever valid says.
NeedsRead_Always(b) == TRUE

\* bread line 182
NeedsRead(b) == buf[b].valid = 0

\* Mutant: acquiresleep does not wait.
SleepFree_Always(b) == TRUE

\* acquiresleep(&b->lock) can proceed
SleepFree(b) == sleeplock[b] = NoThread

\* uint arithmetic of refcnt
Inc(x) == IF x = UintMax THEN 0 ELSE x + 1
Dec(x) == IF x = 0 THEN UintMax ELSE x - 1

histvars == <<inits, reads, writes>>
envvars == <<nbuf, script, kvars>>

\* ------------------------------------------------------------------ bget
\* bread(dev, blockno) is called; bget computes idx (line 78).
bread(t, dev, blockno) ==
  /\ pc[t] = "idle"
  /\ calls' = [calls EXCEPT ![t] = @ + 1]
  /\ loc' = [loc EXCEPT ![t] = [dev |-> dev, blockno |-> blockno,
                                idx |-> HASH(blockno), i |-> 0, b |-> NoBuf]]
  /\ pc' = [pc EXCEPT ![t] = "bget_acq"]
  /\ UNCHANGED <<size, buf, buckets, locks, lock, hashlock, sleeplock, ticks, held,
                 pinned, histvars>>
  /\ UNCHANGED envvars

\* line 83
bget_acq(t) ==
  /\ pc[t] = "bget_acq"
  /\ locks[loc[t].idx] = NoThread
  /\ locks' = [locks EXCEPT ![loc[t].idx] = t]
  /\ pc' = [pc EXCEPT ![t] = "bget_scan"]
  /\ UNCHANGED <<size, buf, buckets, lock, hashlock, sleeplock, ticks, loc, held,
                 pinned, calls, histvars>>
  /\ UNCHANGED envvars

\* lines 86-93: the hit path; on a miss the thread goes on to line 97 with locks[idx] held
bget_scan(t) ==
  /\ pc[t] = "bget_scan"
  /\ LET idx == loc[t].idx
         j == FirstMatch(buckets[idx], loc[t].dev, loc[t].blockno)
     IN IF j # 0
          THEN /\ buf' = [buf EXCEPT ![buckets[idx][j]].refcnt = Inc(@)]
               /\ locks' = [locks EXCEPT ![idx] = NoThread]
               /\ loc' = [loc EXCEPT ![t].b = buckets[idx][j]]
               /\ pc' = [pc EXCEPT ![t] = "sleep_acq"]
          ELSE /\ pc' = [pc EXCEPT ![t] = "pool_acq"]
               /\ UNCHANGED <<buf, locks, loc>>
  /\ UNCHANGED <<size, buckets, lock, hashlock, sleeplock, ticks, held, pinned, calls,
                 histvars>>
  /\ UNCHANGED envvars

\* line 97
pool_acq(t) ==
  /\ pc[t] = "pool_acq"
  /\ lock = NoThread
  /\ lock' = t
  /\ pc' = [pc EXCEPT ![t] = "pool_chk"]
  /\ UNCHANGED <<size, buf, buckets, locks, hashlock, sleeplock, ticks, loc, held,
                 pinned, calls, histvars>>
  /\ UNCHANGED envvars

\* Mutant: the thread goes to the eviction with its bucket's lock still held.
releaseBucket_Keep(l, idx) == l

\* release(&bcache.locks[idx]) at line 112, before hashlock is taken
releaseBucket(l, idx) == [l EXCEPT ![idx] = NoThread]

\* lines 98-100 (a slot is left) or 111-112 (none is)
pool_chk(t) ==
  /\ pc[t] = "pool_chk"
  /\ lock' = NoThread
  /\ IF size < nbuf
       THEN /\ loc' = [loc EXCEPT ![t].b = size]
            /\ size' = size + 1
            /\ pc' = [pc EXCEPT ![t] = "fresh_init"]
            /\ UNCHANGED locks
       ELSE /\ locks' = releaseBucket(locks, loc[t].idx)
            /\ pc' = [pc EXCEPT ![t] = "hash_acq"]
            /\ UNCHANGED <<size, loc>>
  /\ UNCHANGED <<buf, buckets, hashlock, sleeplock, ticks, held, pinned, calls, histvars>>
  /\ UNCHANGED envvars

\* lines 101-107
fresh_init(t) ==
  /\ pc[t] = "fresh_init"
  /\ LET b == loc[t].b
         idx == loc[t].idx
     IN /\ buf' = [buf EXCEPT ![b] = [@ EXCEPT !.dev = loc[t].dev,
                                               !.blockno = loc[t].blockno,
                                               !.valid = 0, !.refcnt = 1]]
        /\ buckets' = [buckets EXCEPT ![idx] = <<b>> \o @]
        /\ locks' = [locks EXCEPT ![idx] = NoThread]
        /\ inits' = [inits EXCEPT ![<<loc[t].dev, loc[t].blockno>>] = @ + 1]
  /\ pc' = [pc EXCEPT ![t] = "sleep_acq"]
  /\ UNCHANGED <<size, lock, hashlock, sleeplock, ticks, loc, held, pinned, calls, reads,
                 writes>>
  /\ UNCHANGED envvars

\* Mutant: the victim is never moved.
NeedsMove_Never(idx, blockno) == FALSE

\* line 142
NeedsMove(idx, blockno) == idx # HASH(blockno)

\* Mutant: the scan goes on with the bucket's lock still held.
release_Keep(l, idx) == l

\* release(&bcache.locks[idx]) at lines 144 and 155
release(l, idx) == [l EXCEPT ![idx] = NoThread]

\* line 116, and the loop's i = 0
hash_acq(t) ==
  /\ pc[t] = "hash_acq"
  /\ hashlock = NoThread
  /\ hashlock' = t
  /\ loc' = [loc EXCEPT ![t].i = 0]
  /\ pc' = [pc EXCEPT ![t] = "ev_acq"]
  /\ UNCHANGED <<size, buf, buckets, locks, lock, sleeplock, ticks, held, pinned, calls,
                 histvars>>
  /\ UNCHANGED envvars

\* lines 118-119
ev_acq(t) ==
  /\ pc[t] = "ev_acq"
  /\ locks[loc[t].idx] = NoThread
  /\ locks' = [locks EXCEPT ![loc[t].idx] = t]
  /\ pc' = [pc EXCEPT ![t] = "ev_scan"]
  /\ UNCHANGED <<size, buf, buckets, lock, hashlock, sleeplock, ticks, loc, held,
                 pinned, calls, histvars>>
  /\ UNCHANGED envvars

\* lines 120-157, and 172 when the loop ends: one bucket of the eviction scan
ev_scan(t) ==
  /\ pc[t] = "ev_scan"
  /\ LET idx == loc[t].idx
         dev == loc[t].dev
         blockno == loc[t].blockno
         list == buckets[idx]
         j == IF Recheck(idx, blockno) THEN FirstMatch(list, dev, blockno) ELSE 0
         m == ScanVictim(list, 1, 0, UintMax)
     IN IF j # 0
          THEN \* lines 123-127
               /\ buf' = [buf EXCEPT ![list[j]].refcnt = Inc(@)]
               /\ locks' = [locks EXCEPT ![idx] = NoThread]
               /\ hashlock' = NoThread
               /\ loc' = [loc EXCEPT ![t].b = list[j]]
               /\ pc' = [pc EXCEPT ![t] = "sleep_acq"]
               /\ UNCHANGED <<buckets, inits>>
          ELSE IF m # 0
          THEN \* lines 137-140
               /\ buf' = [buf EXCEPT ![list[m]] = [@ EXCEPT !.dev = dev, !.blockno = blockno,
                                                            !.valid = 0, !.refcnt = 1]]
               /\ inits' = [inits EXCEPT ![<<dev, blockno>>] = @ + 1]
               /\ locks' = IF NeedsMove(idx, blockno) THEN release(locks, idx)
                                                      ELSE [locks EXCEPT ![idx] = NoThread]
               /\ IF NeedsMove(idx, blockno)
                    THEN \* lines 143-145
                         /\ buckets' = [buckets EXCEPT ![idx] = Remove(list, m)]
                         /\ loc' = [loc EXCEPT ![t].b = list[m], ![t].idx = HASH(blockno)]
                         /\ pc' = [pc EXCEPT ![t] = "mv_acq"]
                         /\ UNCHANGED hashlock
                    ELSE \* lines 150-153
                         /\ hashlock' = NoThread
                         /\ loc' = [loc EXCEPT ![t].b = list[m]]
                         /\ pc' = [pc EXCEPT ![t] = "sleep_acq"]
                         /\ UNCHANGED buckets
          ELSE \* lines 155-157; line 172 after the last bucket
               /\ locks' = release(locks, idx)
               /\ loc' = [loc EXCEPT ![t].idx = IF idx + 1 = NBUCKET THEN 0 ELSE idx + 1,
                                     ![t].i = @ + 1]
               /\ pc' = [pc EXCEPT ![t] = IF loc[t].i + 1 < NBUCKET THEN "ev_acq" ELSE "panic"]
               /\ UNCHANGED <<buf, buckets, hashlock, inits>>
  /\ UNCHANGED <<size, lock, sleeplock, ticks, held, pinned, calls, reads, writes>>
  /\ UNCHANGED envvars

\* line 146
mv_acq(t) ==
  /\ pc[t] = "mv_acq"
  /\ locks[loc[t].idx] = NoThread
  /\ locks' = [locks EXCEPT ![loc[t].idx] = t]
  /\ pc' = [pc EXCEPT ![t] = "mv_link"]
  /\ UNCHANGED <<size, buf, buckets, lock, hashlock, sleeplock, ticks, loc, held,
                 pinned, calls, histvars>>
  /\ UNCHANGED envvars

\* lines 147-151
mv_link(t) ==
  /\ pc[t] = "mv_link"
  /\ buckets' = [buckets EXCEPT ![loc[t].idx] = <<loc[t].b>> \o @]
  /\ locks' = [locks EXCEPT ![loc[t].idx] = NoThread]
  /\ hashlock' = NoThread
  /\ pc' = [pc EXCEPT ![t] = "sleep_acq"]
  /\ UNCHANGED <<size, buf, lock, sleeplock, ticks, loc, held, pinned, calls, histvars>>
  /\ UNCHANGED envvars

\* acquiresleep at lines 90, 108, 126, 152; bget returns b to bread
sleep_acq(t) ==
  /\ pc[t] = "sleep_acq"
  /\ SleepFree(loc[t].b)
  /\ sleeplock' = [sleeplock EXCEPT ![loc[t].b] = t]
  /\ pc' = [pc EXCEPT ![t] = "bread_chk"]
  /\ UNCHANGED <<size, buf, buckets, locks, lock, hashlock, ticks, loc, held, pinned,
                 calls, histvars>>
  /\ UNCHANGED envvars

\* lines 182-186
bread_chk(t) ==
  /\ pc[t] = "bread_chk"
  /\ LET b == loc[t].b
     IN /\ IF NeedsRead(b)
             THEN /\ reads' = [reads EXCEPT ![KeyOf(b)] = @ + 1]
                  /\ buf' = [buf EXCEPT ![b].valid = 1]
             ELSE UNCHANGED <<reads, buf>>
        /\ held' = [held EXCEPT ![t] = @ \cup {b}]
  /\ loc' = [loc EXCEPT ![t] = NoLoc]
  /\ pc' = [pc EXCEPT ![t] = "idle"]
  /\ UNCHANGED <<size, buckets, locks, lock, hashlock, sleeplock, ticks, pinned, calls,
                 inits, writes>>
  /\ UNCHANGED envvars

\* ------------------------------------------------------------------ bwrite, brelse
\* lines 191-196
bwrite(t, b) ==
  /\ pc[t] = "idle"
  /\ b \in Claimed
  /\ IF ~holdingsleep(t, b)
       THEN pc' = [pc EXCEPT ![t] = "panic"] /\ UNCHANGED writes
       ELSE writes' = [writes EXCEPT ![b] = 1] /\ UNCHANGED pc
  /\ UNCHANGED <<size, buf, buckets, locks, lock, hashlock, sleeplock, ticks, loc, held,
                 pinned, calls, inits, reads>>
  /\ UNCHANGED envvars

\* lines 205-211: the caller gives the buffer up; idx is computed before the bucket lock is taken
brelse(t, b) ==
  /\ pc[t] = "idle"
  /\ b \in Claimed
  /\ IF ~holdingsleep(t, b)
       THEN /\ pc' = [pc EXCEPT ![t] = "panic"]
            /\ UNCHANGED <<sleeplock, loc, held>>
       ELSE /\ sleeplock' = [sleeplock EXCEPT ![b] = NoThread]
            /\ loc' = [loc EXCEPT ![t] = [NoLoc EXCEPT !.b = b, !.idx = HASH(buf[b].blockno)]]
            /\ held' = [held EXCEPT ![t] = @ \ {b}]
            /\ pc' = [pc EXCEPT ![t] = "brelse_acq"]
  /\ UNCHANGED <<size, buf, buckets, locks, lock, hashlock, ticks, pinned, calls,
                 histvars>>
  /\ UNCHANGED envvars

\* line 212
brelse_acq(t) ==
  /\ pc[t] = "brelse_acq"
  /\ locks[loc[t].idx] = NoThread
  /\ locks' = [locks EXCEPT ![loc[t].idx] = t]
  /\ pc' = [pc EXCEPT ![t] = "brelse_dec"]
  /\ UNCHANGED <<size, buf, buckets, lock, hashlock, sleeplock, ticks, loc, held,
                 pinned, calls, histvars>>
  /\ UNCHANGED envvars

\* lines 213-225
brelse_dec(t) ==
  /\ pc[t] = "brelse_dec"
  /\ LET b == loc[t].b
         r == Dec(buf[b].refcnt)
     IN buf' = [buf EXCEPT ![b] = [@ EXCEPT !.refcnt = r,
                                            !.timestamp = IF r = 0 THEN ticks ELSE @]]
  /\ locks' = [locks EXCEPT ![loc[t].idx] = NoThread]
  /\ loc' = [loc EXCEPT ![t] = NoLoc]
  /\ pc' = [pc EXCEPT ![t] = "idle"]
  /\ UNCHANGED <<size, buckets, lock, hashlock, sleeplock, ticks, held, pinned, calls,
                 histvars>>
  /\ UNCHANGED envvars

\* ------------------------------------------------------------------ bpin, bunpin
\* line 230: bpin is called on a buffer the caller has from bread
bpin(t, b) ==
  /\ pc[t] = "idle"
  /\ b \in Claimed
  /\ pinned[b] < MaxPins
  /\ pinned' = [pinned EXCEPT ![b] = @ + 1]
  /\ loc' = [loc EXCEPT ![t] = [NoLoc EXCEPT !.b = b, !.idx = HASH(buf[b].blockno)]]
  /\ pc' = [pc EXCEPT ![t] = "bpin_acq"]
  /\ UNCHANGED <<size, buf, buckets, locks, lock, hashlock, sleeplock, ticks, held,
                 calls, histvars>>
  /\ UNCHANGED envvars

\* line 231
bpin_acq(t) ==
  /\ pc[t] = "bpin_acq"
  /\ locks[loc[t].idx] = NoThread
  /\ locks' = [locks EXCEPT ![loc[t].idx] = t]
  /\ pc' = [pc EXCEPT ![t] = "bpin_inc"]
  /\ UNCHANGED <<size, buf, buckets, lock, hashlock, sleeplock, ticks, loc, held,
                 pinned, calls, histvars>>
  /\ UNCHANGED envvars

\* lines 232-233
bpin_inc(t) ==
  /\ pc[t] = "bpin_inc"
  /\ buf' = [buf EXCEPT ![loc[t].b].refcnt = Inc(@)]
  /\ locks' = [locks EXCEPT ![loc[t].idx] = NoThread]
  /\ loc' = [loc EXCEPT ![t] = NoLoc]
  /\ pc' = [pc EXCEPT ![t] = "idle"]
  /\ UNCHANGED <<size, buckets, lock, hashlock, sleeplock, ticks, held, pinned, calls,
                 histvars>>
  /\ UNCHANGED envvars

\* line 238: bunpin is called on a buffer that a completed bpin has pinned
bunpin(t, b) ==
  /\ pc[t] = "idle"
  /\ pinned[b] > 0
  /\ \A u \in Threads : pc[u] \in {"bpin_acq", "bpin_inc"} => loc[u].b # b
  /\ pinned' = [pinned EXCEPT ![b] = @ - 1]
  /\ loc' = [loc EXCEPT ![t] = [NoLoc EXCEPT !.b = b, !.idx = HASH(buf[b].blockno)]]
  /\ pc' = [pc EXCEPT ![t] = "bunpin_acq"]
  /\ UNCHANGED <<size, buf, buckets, locks, lock, hashlock, sleeplock, ticks, held,
                 calls, histvars>>
  /\ UNCHANGED envvars

\* line 239
bunpin_acq(t) ==
  /\ pc[t] = "bunpin_acq"
  /\ locks[loc[t].idx] = NoThread
  /\ locks' = [locks EXCEPT ![loc[t].idx] = t]
  /\ pc' = [pc EXCEPT ![t] = "bunpin_dec"]
  /\ UNCHANGED <<size, buf, buckets, lock, hashlock, sleeplock, ticks, loc, held,
                 pinned, calls, histvars>>
  /\ UNCHANGED envvars

\* lines 240-241
bunpin_dec(t) ==
  /\ pc[t] = "bunpin_dec"
  /\ buf' = [buf EXCEPT ![loc[t].b].refcnt = Dec(@)]
  /\ locks' = [locks EXCEPT ![loc[t].idx] = NoThread]
  /\ loc' = [loc EXCEPT ![t] = NoLoc]
  /\ pc' = [pc EXCEPT ![t] = "idle"]
  /\ UNCHANGED <<size, buckets, lock, hashlock, sleeplock, ticks, held, pinned, calls,
                 histvars>>
  /\ UNCHANGED envvars

\* the timer interrupt advances ticks
Tick ==
  /\ ticks' = ticks + 1
  /\ UNCHANGED <<size, buf, buckets, locks, lock, hashlock, sleeplock, pc, loc, held,
                 pinned, calls, histvars>>
  /\ UNCHANGED envvars

bget(t) ==
  \/ bget_acq(t) \/ bget_scan(t) \/ pool_acq(t) \/ pool_chk(t) \/ fresh_init(t)
  \/ hash_acq(t) \/ ev_acq(t) \/ ev_scan(t) \/ mv_acq(t) \/ mv_link(t)

\* what a thread does once it has called an operation
InBread(t) == bget(t) \/ sleep_acq(t) \/ bread_chk(t)
InBrelse(t) == brelse_acq(t) \/ brelse_dec(t)
InPin(t) == bpin_acq(t) \/ bpin_inc(t) \/ bunpin_acq(t) \/ bunpin_dec(t)
Inside(t) == InBread(t) \/ InBrelse(t) \/ InPin(t)

\* The callers: a thread asks for one buffer at a time, writes, pins and releases only a
\* buffer it has from bread, and unpins only what has been pinned.
Call(t) ==
  \/ \E dev \in Devs, blockno \in Blocks :
       calls[t] < MaxCalls /\ held[t] = {} /\ bread(t, dev, blockno)
  \/ \E b \in held[t] : bwrite(t, b)
  \/ \E b \in held[t] : brelse(t, b)
  \/ \E b \in held[t] : bpin(t, b)
  \/ \E b \in Bufs : bunpin(t, b)

\* ------------------------------------------------------------------ kalloc.c
\* Every critical section of a page's lock or of kmem.lock is one step: a count is read
\* and written only under its page's lock, the free list only under kmem.lock.  The frames
\* of the model lie between end and PHYSTOP, so the range checks of lines 66 and 120-122
\* pass.

NoPte == [pa |-> NoFrame, v |-> FALSE, w |-> FALSE, cow |-> FALSE]
NoKloc == [op |-> "none", pa |-> NoFrame, r |-> NoFrame, fr |-> NoFrame, ret |-> NoFrame,
           cnt0 |-> 0, data0 |-> 0, free0 |-> FALSE]

\* line 41
KinitCnt == 1

\* line 72
KfreeDec(c) == c - 1

\* Mutant: kfree pushes the frame whatever the count.
KfreeKeeps_Never(c) == FALSE

\* line 73, on the decremented count: other references remain, the frame is not freed
KfreeKeeps(c) == c > 0

\* Mutant: kalloc leaves the count as it finds it.
KallocCnt_Keep(c) == c

\* line 111
KallocCnt(c) == 1

\* Mutant: kalloc leaves the frame on the free list.
Pop_Keep(list) == list

\* line 103
Pop(list) == Tail(list)

\* Mutant: cow_copy treats every frame as shared.
CowExclusive_Never(c) == FALSE

\* Mutant: cow_copy takes every mapped frame for its caller's own.
CowExclusive_Any(c) == c >= 1

\* line 155
CowExclusive(c) == c = 1

\* Mutant: the new frame is not filled from the old one.
Memmove_None(d, dst, src) == d

\* line 171
Memmove(d, dst, src) == [d EXCEPT ![dst] = d[src]]

\* mappages (vm.c) walks, with alloc = 1, the path that walk has just resolved at line 151:
\* no page-table page is missing, so it returns 0.
MappagesResults == {0}

\* lines 45, 49-55: kinit's freerange calls kfree on every frame, lowest address first
RECURSIVE freerange(_)
freerange(n) ==
  IF n = 0 THEN << >>
  ELSE IF KfreeKeeps(KfreeDec(KinitCnt)) THEN freerange(n - 1)
       ELSE <<n>> \o freerange(n - 1)

kinit ==
  /\ cnt = [f \in Frames |-> KfreeDec(KinitCnt)]
  /\ freelist = freerange(NFrames)
  /\ data = [f \in Frames |-> JunkFree]
  /\ nkref = [f \in Frames |-> 0]
  /\ nkfree = [f \in Frames |-> 1]
  /\ pushes = [f \in Frames |-> Len(SelectSeq(freerange(NFrames), LAMBDA x : x = f))]
  /\ pte = [p \in Procs |-> NoPte]
  /\ kpages = [p \in Procs |-> {}]
  /\ kpc = [p \in Procs |-> "idle"]
  /\ kloc = [p \in Procs |-> NoKloc]

biostate == <<biovars, nbuf, script>>

\* a call returns val; the locals are gone
Return(p, val) ==
  /\ kpc' = [kpc EXCEPT ![p] = "idle"]
  /\ kloc' = [kloc EXCEPT ![p] = [NoKloc EXCEPT !.ret = val]]

\* kalloc() is called
kalloc(p) ==
  /\ kpc[p] = "idle"
  /\ kloc' = [kloc EXCEPT ![p] = [NoKloc EXCEPT !.op = "kalloc"]]
  /\ kpc' = [kpc EXCEPT ![p] = "kalloc_pop"]
  /\ UNCHANGED <<freelist, cnt, data, pte, kpages, nkref, nkfree, pushes, biostate>>

\* lines 100-106: with an empty list kalloc returns 0, and so does cow_copy (line 168)
kalloc_pop(p) ==
  /\ kpc[p] = "kalloc_pop"
  /\ IF freelist = << >>
       THEN /\ Return(p, NoFrame)
            /\ UNCHANGED freelist
       ELSE /\ freelist' = Pop(freelist)
            /\ kloc' = [kloc EXCEPT ![p].r = Head(freelist)]
            /\ kpc' = [kpc EXCEPT ![p] = "kalloc_ref"]
  /\ UNCHANGED <<cnt, data, pte, kpages, nkref, nkfree, pushes, biostate>>

\* lines 108-115; a frame that kalloc() returned to a caller is the caller's
kalloc_ref(p) ==
  /\ kpc[p] = "kalloc_ref"
  /\ LET r == kloc[p].r
     IN /\ data' = [data EXCEPT ![r] = JunkAlloc]
        /\ cnt' = [cnt EXCEPT ![r] = KallocCnt(@)]
        /\ nkref' = [nkref EXCEPT ![r] = 0]
        /\ nkfree' = [nkfree EXCEPT ![r] = 0]
        /\ pushes' = [pushes EXCEPT ![r] = 0]
        /\ IF kloc[p].op = "kalloc"
             THEN /\ kpages' = [kpages EXCEPT ![p] = @ \cup {r}]
                  /\ Return(p, r)
             ELSE /\ kpc' = [kpc EXCEPT ![p] = "cow_map"]
                  /\ UNCHANGED <<kpages, kloc>>
  /\ UNCHANGED <<freelist, pte, biostate>>

\* kfree(pa) is called on a frame the caller has from kalloc
kfree(p, pa) ==
  /\ kpc[p] = "idle"
  /\ pa \in kpages[p]
  /\ kpages' = [kpages EXCEPT ![p] = @ \ {pa}]
  /\ kloc' = [kloc EXCEPT ![p] = [NoKloc EXCEPT !.op = "kfree", !.fr = pa]]
  /\ kpc' = [kpc EXCEPT ![p] = "kfree_dec"]
  /\ UNCHANGED <<freelist, cnt, data, pte, nkref, nkfree, pushes, biostate>>

\* what the caller of kfree gets back: nothing from kfree itself, newpa at line 184,
\* 0 at line 179
KfreeReturn(p) ==
  IF kloc[p].op = "cow" THEN (IF kloc[p].fr = kloc[p].pa THEN kloc[p].r ELSE NoFrame)
  ELSE NoFrame

\* lines 70-82
kfree_dec(p) ==
  /\ kpc[p] = "kfree_dec"
  /\ LET f == kloc[p].fr
         c == KfreeDec(cnt[f])
     IN /\ cnt' = [cnt EXCEPT ![f] = c]
        /\ nkfree' = [nkfree EXCEPT ![f] = @ + 1]
        /\ IF KfreeKeeps(c)
             THEN /\ Return(p, KfreeReturn(p))
                  /\ UNCHANGED data
             ELSE /\ data' = [data EXCEPT ![f] = JunkFree]
                  /\ kpc' = [kpc EXCEPT ![p] = "kfree_push"]
                  /\ UNCHANGED kloc
  /\ UNCHANGED <<freelist, pte, kpages, nkref, pushes, biostate>>

\* lines 84-89
kfree_push(p) ==
  /\ kpc[p] = "kfree_push"
  /\ freelist' = <<kloc[p].fr>> \o freelist
  /\ pushes' = [pushes EXCEPT ![kloc[p].fr] = @ + 1]
  /\ Return(p, KfreeReturn(p))
  /\ UNCHANGED <<cnt, data, pte, kpages, nkref, nkfree, biostate>>

\* lines 119-130, and the caller (fork's uvmcopy): process p shares its page with q, both
\* entries lose PTE_W and get PTE_COW
krefpage(p, q) ==
  /\ kpc[p] = "idle" /\ kpc[q] = "idle"
  /\ p # q
  /\ pte[p].v /\ ~pte[q].v
  /\ cnt' = [cnt EXCEPT ![pte[p].pa] = @ + 1]
  /\ nkref' = [nkref EXCEPT ![pte[p].pa] = @ + 1]
  /\ pte' = [pte EXCEPT ![p] = [@ EXCEPT !.w = FALSE, !.cow = TRUE],
                        ![q] = [pte[p] EXCEPT !.w = FALSE, !.cow = TRUE]]
  /\ UNCHANGED <<freelist, data, kpages, kpc, kloc, nkfree, pushes, biostate>>

\* the callers of vm.c: a frame from kalloc is mapped writable (uvmalloc)
Map(p, f) ==
  /\ kpc[p] = "idle"
  /\ f \in kpages[p]
  /\ ~pte[p].v
  /\ pte' = [pte EXCEPT ![p] = [pa |-> f, v |-> TRUE, w |-> TRUE, cow |-> FALSE]]
  /\ kpages' = [kpages EXCEPT ![p] = @ \ {f}]
  /\ UNCHANGED <<freelist, cnt, data, kpc, kloc, nkref, nkfree, pushes, biostate>>

\* a page is unmapped and its frame given to kfree (uvmunmap with do_free)
Unmap(p) ==
  /\ kpc[p] = "idle"
  /\ pte[p].v
  /\ pte' = [pte EXCEPT ![p] = NoPte]
  /\ kloc' = [kloc EXCEPT ![p] = [NoKloc EXCEPT !.op = "kfree", !.fr = pte[p].pa]]
  /\ kpc' = [kpc EXCEPT ![p] = "kfree_dec"]
  /\ UNCHANGED <<freelist, cnt, data, kpages, nkref, nkfree, pushes, biostate>>

\* a user store through a writable mapping
Store(p, val) ==
  /\ kpc[p] = "idle"
  /\ pte[p].v /\ pte[p].w
  /\ data[pte[p].pa] # val
  /\ data' = [data EXCEPT ![pte[p].pa] = val]
  /\ UNCHANGED <<freelist, cnt, pte, kpages, kpc, kloc, nkref, nkfree, pushes, biostate>>

\* lines 132-144
cow_check(p) == pte[p].v /\ pte[p].cow

\* lines 148-152: cow_copy is called for a page that cow_check accepts.  cnt0, data0 and
\* free0 record the frame's count and contents and whether a frame is free at the call.
cow_copy(p) ==
  /\ kpc[p] = "idle"
  /\ cow_check(p)
  /\ kloc' = [kloc EXCEPT ![p] = [NoKloc EXCEPT !.op = "cow", !.pa = pte[p].pa,
                                                !.cnt0 = cnt[pte[p].pa],
                                                !.data0 = data[pte[p].pa],
                                                !.free0 = (freelist # << >>)]]
  /\ kpc' = [kpc EXCEPT ![p] = "cow_chk"]
  /\ UNCHANGED <<freelist, cnt, data, pte, kpages, nkref, nkfree, pushes, biostate>>

\* lines 154-163
cow_chk(p) ==
  /\ kpc[p] = "cow_chk"
  /\ IF CowExclusive(cnt[kloc[p].pa])
       THEN /\ pte' = [pte EXCEPT ![p] = [@ EXCEPT !.cow = FALSE, !.w = TRUE]]
            /\ Return(p, kloc[p].pa)
       ELSE /\ kpc' = [kpc EXCEPT ![p] = "kalloc_pop"]
            /\ UNCHANGED <<pte, kloc>>
  /\ UNCHANGED <<freelist, cnt, data, kpages, nkref, nkfree, pushes, biostate>>

\* lines 171-182: copy, unmap, map the new frame, then kfree of the old frame; if mappages
\* fails the new frame goes to kfree and the entry stays without PTE_V
cow_map(p) ==
  /\ kpc[p] = "cow_map"
  /\ data' = Memmove(data, kloc[p].r, kloc[p].pa)
  /\ \E res \in MappagesResults :
       IF res = 0
         THEN /\ pte' = [pte EXCEPT ![p] = [pa |-> kloc[p].r, v |-> TRUE, w |-> TRUE,
                                            cow |-> FALSE]]
              /\ kloc' = [kloc EXCEPT ![p].fr = kloc[p].pa]
         ELSE /\ pte' = [pte EXCEPT ![p].v = FALSE]
              /\ kloc' = [kloc EXCEPT ![p].fr = kloc[p].r]
  /\ kpc' = [kpc EXCEPT ![p] = "kfree_dec"]
  /\ UNCHANGED <<freelist, cnt, kpages, nkref, nkfree, pushes, biostate>>

\* The history of a frame counts its krefpage calls: the callers stop sharing a frame
\* after MaxRefs of them.
KStep(p) ==
  \/ kalloc(p) \/ kalloc_pop(p) \/ kalloc_ref(p)
  \/ \E f \in Frames : kfree(p, f)
  \/ kfree_dec(p) \/ kfree_push(p)
  \/ \E q \in Procs : pte[p].v /\ nkref[pte[p].pa] < MaxRefs /\ krefpage(p, q)
  \/ \E f \in Frames : Map(p, f)
  \/ Unmap(p)
  \/ \E val \in UserVals : Store(p, val)
  \/ cow_copy(p) \/ cow_chk(p) \/ cow_map(p)

KNext == \E p \in Procs : KStep(p)

\* ------------------------------------------------------------------ specifications
Timer == ticks < MaxTicks /\ Tick

NoScript == [phase |-> "free"]

Next == Timer \/ \E t \in Threads : Call(t) \/ Inside(t)

vars == <<biovars, nbuf, script, kvars>>

Init == BioInit /\ nbuf = NBUF /\ script = NoScript /\ kinit

Spec == Init /\ [][Next]_vars

\* ------------------------------------------------------------------ concurrent miss
\* N threads ask for the same uncached block.  The pool is first filled to any level by
\* earlier reads of other blocks, one at a time (script.phase = "fill"); then the block is
\* chosen and every thread may call bread for it once and brelse afterwards ("race").
Quiet == \A t \in Threads : pc[t] = "idle" /\ held[t] = {}
Cached(key) == \E b \in Claimed : KeyOf(b) = key

MissStart ==
  /\ script.phase = "fill"
  /\ Quiet
  /\ \E key \in Devs \X Blocks :
       /\ ~Cached(key)
       /\ script' = [phase |-> "race", key |-> key, base |-> calls]
  /\ UNCHANGED <<biovars, nbuf, kvars>>

MissCall(t) ==
  \/ /\ script.phase = "fill"
     /\ Quiet
     /\ size < nbuf
     /\ \E dev \in Devs, blockno \in Blocks :
          ~Cached(<<dev, blockno>>) /\ bread(t, dev, blockno)
  \/ /\ script.phase = "race"
     /\ calls[t] = script.base[t]
     /\ bread(t, script.key[1], script.key[2])
  \/ \E b \in held[t] : brelse(t, b)

MissNext == Timer \/ MissStart \/ \E t \in Threads : MissCall(t) \/ InBread(t) \/ InBrelse(t)

MissInit == BioInit /\ nbuf = NBUF /\ script = [phase |-> "fill"] /\ kinit

SpecMiss == MissInit /\ [][MissNext]_vars

\* ------------------------------------------------------------------ the eviction scenario
\* Section 8 of the specification: NBUF = 4; one thread reads blocks 1 .. 4 of device 0,
\* releases the four in an order of its choice while the clock may advance, and reads
\* block 5.  script.order is the order of the brelse calls (by block number), script.cur
\* the buffer chosen for the next brelse.
ScenThread == 1
ScenDev == 0
ScenLast == ScenarioNBUF + 1

ScenRead ==
  /\ script.phase = "read"
  /\ calls[ScenThread] < ScenarioNBUF
  /\ bread(ScenThread, ScenDev, calls[ScenThread] + 1)

ScenPick ==
  /\ script.phase \in {"read", "release"}
  /\ pc[ScenThread] = "idle"
  /\ calls[ScenThread] = ScenarioNBUF
  /\ script.cur \notin held[ScenThread]
  /\ \E b \in held[ScenThread] :
       script' = [phase |-> "release", order |-> Append(script.order, buf[b].blockno),
                  cur |-> b]
  /\ UNCHANGED <<biovars, nbuf, kvars>>

ScenRelease ==
  /\ script.phase = "release"
  /\ calls[ScenThread] = ScenarioNBUF
  /\ script.cur \in held[ScenThread]
  /\ brelse(ScenThread, script.cur)

ScenFinal ==
  /\ script.phase = "release"
  /\ calls[ScenThread] = ScenarioNBUF
  /\ held[ScenThread] = {}
  /\ bread(ScenThread, ScenDev, ScenLast)

ScenTimer == ticks < ScenarioNBUF /\ Tick

ScenInside ==
  \/ bget_acq(ScenThread) \/ bget_scan(ScenThread) \/ pool_acq(ScenThread)
  \/ pool_chk(ScenThread) \/ fresh_init(ScenThread) \/ hash_acq(ScenThread)
  \/ ev_acq(ScenThread) \/ ev_scan(ScenThread)
  \/ sleep_acq(ScenThread) \/ bread_chk(ScenThread)
  \/ brelse_acq(ScenThread) \/ brelse_dec(ScenThread)

ScenNext == ScenTimer \/ ScenRead \/ ScenPick \/ ScenRelease \/ ScenFinal \/ ScenInside

ScenInit ==
  /\ BioInit
  /\ nbuf = ScenarioNBUF
  /\ script = [phase |-> "read", order |-> << >>, cur |-> NoBuf]
  /\ kinit

SpecScenario == ScenInit /\ [][ScenNext]_vars

\* kalloc.c, any interleaving of the processes
SpecKalloc == Init /\ [][KNext]_vars

\* kalloc.c, one call at a time
Alone(p) == \A q \in Procs : q # p => kpc[q] = "idle"

KSeqNext ==
  \E p \in Procs :
    \/ Alone(p) /\ kalloc(p)
    \/ Alone(p) /\ kalloc_pop(p)
    \/ Alone(p) /\ kalloc_ref(p)
    \/ Alone(p) /\ \E f \in Frames : kfree(p, f)
    \/ Alone(p) /\ kfree_dec(p)
    \/ Alone(p) /\ kfree_push(p)
    \/ Alone(p) /\ \E q \in Procs : pte[p].v /\ nkref[pte[p].pa] < MaxRefs /\ krefpage(p, q)
    \/ Alone(p) /\ \E f \in Frames : Map(p, f)
    \/ Alone(p) /\ Unmap(p)
    \/ Alone(p) /\ \E val \in UserVals : Store(p, val)
    \/ Alone(p) /\ cow_copy(p)
    \/ Alone(p) /\ cow_chk(p)
    \/ Alone(p) /\ cow_map(p)

SpecKallocSeq == Init /\ [][KSeqNext]_vars

\* allocation only, from boot: no kfree intervenes
KExhaustNext == \E p \in Procs : kalloc(p) \/ kalloc_pop(p) \/ kalloc_ref(p)

SpecExhaust == Init /\ [][KExhaustNext]_vars

\* ------------------------------------------------------------------ properties of the cache
Live(b) == buf[b].refcnt > 0 \/ buf[b].valid = 1
Holders(b) == {t \in Threads : b \in held[t]}

\* C1: no two claimed buffers with refcnt > 0 or valid = 1 carry the same (dev, blockno),
\* in any state of any interleaving of bread, brelse, bpin and bunpin.
C1_KeyUnique ==
  \A a \in Claimed, b \in Claimed :
    (a # b /\ Live(a) /\ Live(b)) => KeyOf(a) # KeyOf(b)

\* C1 witness: a victim is on its way between two buckets (unlinked, not yet linked) while
\* another claimed buffer is live.
C1_Witness ==
  \E t \in Threads : \E a \in Claimed :
    /\ pc[t] = "mv_acq"
    /\ a # loc[t].b
    /\ Live(a) /\ Live(loc[t].b)

\* The step is an eviction (lines 137-140) that re-keys buffer b.
Rekeys(t, b) ==
  /\ pc[t] = "ev_scan"
  /\ pc'[t] \in {"mv_acq", "sleep_acq"}
  /\ loc'[t].b = b
  /\ inits' # inits

\* C2: the eviction path re-keys a buffer only when its refcnt is 0, and a buffer that a
\* thread has from bread and has not passed to brelse, or that is pinned, keeps its key.
C2_NoLiveEviction ==
  [][\A b \in Bufs :
       /\ (\E t \in Threads : Rekeys(t, b)) => buf[b].refcnt = 0
       /\ (Holders(b) # {} \/ pinned[b] > 0) => KeyOf(b)' = KeyOf(b)]_vars

\* C2 witness: a buffer has just been re-keyed while another buffer is pinned and held by
\* nobody, and a third party holds nothing: the pinned one was passed over.
C2_Witness ==
  \E t \in Threads : \E a \in Claimed :
    /\ pc[t] = "mv_acq"
    /\ a # loc[t].b
    /\ pinned[a] > 0 /\ Holders(a) = {} /\ buf[a].refcnt = 1

\* The threads that are inside bread with the content lock, or have the buffer from bread.
Users(b) == Holders(b) \cup {t \in Threads : pc[t] = "bread_chk" /\ loc[t].b = b}

\* C4: a buffer that bread has returned is locked by the thread it was returned to, and at
\* most one thread at a time is between bread's return of a buffer and its brelse.
C4_Exclusive ==
  \A b \in Bufs :
    /\ Cardinality(Users(b)) <= 1
    /\ \A t \in Users(b) : holdingsleep(t, b) /\ buf[b].refcnt > 0

\* C4 witness: one thread has the buffer, a second one has asked for the same block, has
\* incremented refcnt and waits for the content lock.
C4_Witness ==
  \E t \in Threads, u \in Threads : \E b \in held[t] :
    /\ u # t
    /\ pc[u] = "sleep_acq" /\ loc[u].b = b
    /\ buf[b].refcnt = 2

\* ------------------------------------------------------------------ C3
Raced(t) == script.phase = "race" /\ calls[t] > script.base[t]
Returned(t) == Raced(t) /\ pc[t] \in {"idle", "brelse_acq", "brelse_dec"}

\* C3: when N threads ask for the same uncached block and for nothing else, a buffer is
\* initialised for the block once and the disk is read for it once: never more than once,
\* and exactly once as soon as one of the threads is back from bread.
C3_SingleFetch ==
  script.phase = "race" =>
    /\ inits[script.key] <= 1
    /\ reads[script.key] <= 1
    /\ reads[script.key] <= inits[script.key]
    /\ \A t \in Threads : Returned(t) => inits[script.key] = 1 /\ reads[script.key] = 1

\* C3 witness: the pool was full, so the buffer came from eviction; every thread has asked
\* for the block, has it back from bread and has released it.
C3_Witness ==
  /\ script.phase = "race"
  /\ size = nbuf
  /\ \A t \in Threads : Raced(t) /\ pc[t] = "idle" /\ held[t] = {}
  /\ Cardinality({k \in Keys : inits[k] > 0}) = nbuf + 1
  /\ reads[script.key] = 1

\* ------------------------------------------------------------------ C10
ScenDone == calls[ScenThread] = ScenarioNBUF + 1 /\ pc[ScenThread] = "idle"
ScenFirst == {n \in ScenarioBlocks : n # ScenLast}
ScenMissing == {n \in ScenFirst : ~Cached(<<ScenDev, n>>)}
PosIn(list, b) == CHOOSE j \in 1..Len(list) : list[j] = b

\* what the scenario says of the pool after the last read
ScenPool ==
  /\ size = ScenarioNBUF
  /\ inits[<<ScenDev, ScenLast>>] = 1
  /\ \A b \in Claimed : buf[b].valid = 1
  /\ \A a \in Claimed, b \in Claimed : a # b => KeyOf(a) # KeyOf(b)
  /\ Cardinality(ScenMissing) = 1
  /\ Cached(<<ScenDev, ScenLast>>)

\* C10 as stated: the buffer that the read of block 5 re-keys is the one that was released
\* first of the four.
C10_Original ==
  ScenDone => ScenPool /\ ScenMissing = {script.order[1]}

\* C10 as amended: the read of block 5 re-keys exactly one buffer and leaves 4 claimed, valid
\* buffers with distinct keys; the re-keyed buffer is the one of bucket HASH(5) with the
\* smallest release timestamp, the first of the bucket's list among equal timestamps.
C10_Amended ==
  ScenDone =>
    /\ ScenPool
    /\ \A n \in ScenMissing : HASH(n) = HASH(ScenLast)
    /\ LET list == buckets[HASH(ScenLast)]
           v == CHOOSE b \in Claimed : KeyOf(b) = <<ScenDev, ScenLast>>
       IN \A j \in 1..Len(list) :
            list[j] # v =>
              \/ buf[v].timestamp < buf[list[j]].timestamp
              \/ buf[v].timestamp = buf[list[j]].timestamp /\ PosIn(list, v) < j

\* C10 witness: the scenario has run to its end and the buffer that was released first is
\* still in the cache.
C10_Witness ==
  /\ ScenDone
  /\ ScenMissing # {script.order[1]}
  /\ \E b \in Claimed : buf[b].timestamp > 0

\* ------------------------------------------------------------------ properties of kalloc.c
OnFreeList(f) == \E j \in 1..Len(freelist) : freelist[j] = f
Pushing(f) == \E p \in Procs : kpc[p] = "kfree_push" /\ kloc[p].fr = f

\* C5: every page_ref_list entry has cnt >= 0, in every state reachable from kinit by
\* kalloc, kfree of owned references, krefpage and cow_copy in any interleaving.
C5_NonNegative == \A f \in Frames : cnt[f] >= 0

\* C5 witness: a frame that was shared has lost all its references and is free again.
C5_Witness ==
  \E f \in Frames : nkref[f] >= 1 /\ nkfree[f] >= 2 /\ cnt[f] = 0 /\ OnFreeList(f)

\* C6: after k successful krefpage calls on a frame that kalloc returned, the first k kfree
\* calls only decrement the count and leave the frame off the free list; the frame is
\* pushed once, by the (k+1)-th kfree.
C6_SharedNotFreedEarly ==
  \A f \in Frames :
    /\ nkfree[f] <= nkref[f] + 1
    /\ cnt[f] = nkref[f] + 1 - nkfree[f]
    /\ nkfree[f] <= nkref[f] => pushes[f] = 0 /\ ~OnFreeList(f) /\ ~Pushing(f)
    /\ pushes[f] <= 1
    /\ nkfree[f] = nkref[f] + 1 => pushes[f] = 1 \/ Pushing(f)

\* C6 witness: a frame with k = MaxRefs krefpage calls has had k kfree calls and is still
\* off the free list.
C6_Witness ==
  \E f \in Frames :
    nkref[f] = MaxRefs /\ nkfree[f] = MaxRefs /\ cnt[f] = 1 /\ ~OnFreeList(f)

\* C7: cow_copy on a mapping whose frame has cnt = 1 returns the same physical address,
\* leaves the free list and every count as they are, and leaves the entry on the same
\* frame with PTE_COW cleared and PTE_W set.
C7_FastPath ==
  [][\A p \in Procs :
       (kpc[p] = "cow_chk" /\ kpc'[p] # "cow_chk" /\ kloc[p].cnt0 = 1) =>
         /\ kpc'[p] = "idle"
         /\ kloc'[p].ret = kloc[p].pa
         /\ freelist' = freelist
         /\ cnt' = cnt
         /\ pte[p].pa = kloc[p].pa
         /\ pte'[p] = [pa |-> kloc[p].pa, v |-> TRUE, w |-> TRUE, cow |-> FALSE]]_vars

\* C7 witness: a process has its once shared frame back writable from cow_copy, the
\* frame's count is 1 and cow_copy returned the frame's own address.
C7_Witness ==
  \E p \in Procs :
    /\ kpc[p] = "idle"
    /\ pte[p].v /\ pte[p].w /\ ~pte[p].cow
    /\ kloc[p].ret = pte[p].pa
    /\ nkref[pte[p].pa] >= 1
    /\ cnt[pte[p].pa] = 1

\* the step in which cow_copy returns
CowDone(p) == kloc[p].op = "cow" /\ kpc[p] # "idle" /\ kpc'[p] = "idle"

\* C8: cow_copy on a mapping whose frame has cnt = 2, with a frame free, returns another
\* physical address; the new frame has cnt = 1 and the contents the old frame had at the
\* call; the entry is on the new frame, writable, without PTE_COW; the old frame's count
\* is one less, 1, and the old frame is not on the free list.
C8_SlowPath ==
  [][\A p \in Procs :
       (CowDone(p) /\ kloc[p].cnt0 = 2 /\ kloc[p].free0) =>
         /\ kloc'[p].ret # NoFrame
         /\ kloc'[p].ret # kloc[p].pa
         /\ cnt'[kloc'[p].ret] = 1
         /\ data'[kloc'[p].ret] = kloc[p].data0
         /\ pte'[p] = [pa |-> kloc'[p].ret, v |-> TRUE, w |-> TRUE, cow |-> FALSE]
         /\ cnt'[kloc[p].pa] = kloc[p].cnt0 - 1
         /\ cnt'[kloc[p].pa] = 1
         /\ \A j \in 1..Len(freelist') : freelist'[j] # kloc[p].pa]_vars

\* C8 witness: cow_copy was called on a frame with count 2 that holds user data, has
\* copied and remapped, and is at its kfree of the old frame.
C8_Witness ==
  \E p \in Procs :
    /\ kpc[p] = "kfree_dec"
    /\ kloc[p].op = "cow" /\ kloc[p].cnt0 = 2 /\ kloc[p].free0
    /\ kloc[p].fr = kloc[p].pa
    /\ kloc[p].data0 \in UserVals
    /\ pte[p].pa = kloc[p].r

\* the frames kalloc has handed out, and the ones it has popped and not yet returned
Handed == UNION {kpages[p] : p \in Procs}
InFlight == {p \in Procs : kpc[p] = "kalloc_ref"}
Taken == Cardinality(Handed) + Cardinality(InFlight)

\* C9: from boot, with no kfree, the first NFrames kalloc calls return pairwise different
\* non-null frames with cnt = 1, and a kalloc after them returns 0 and changes neither a
\* count nor the free list.
C9_Exhaustion ==
  /\ [](/\ Taken + Len(freelist) = NFrames
        /\ \A f \in Handed : cnt[f] = 1 /\ ~OnFreeList(f)
        /\ \A p \in InFlight : kloc[p].r \notin Handed /\ ~OnFreeList(kloc[p].r)
        /\ \A p \in Procs, q \in Procs : p # q => kpages[p] \cap kpages[q] = {})
  /\ [][\A p \in Procs :
          /\ (kpc[p] = "kalloc_pop" /\ kpc'[p] # "kalloc_pop") =>
               IF Taken = NFrames
                 THEN /\ kpc'[p] = "idle" /\ kloc'[p].ret = NoFrame
                      /\ cnt' = cnt /\ freelist' = freelist
                 ELSE /\ kpc'[p] = "kalloc_ref" /\ kloc'[p].r # NoFrame
          /\ (kpc[p] = "kalloc_ref" /\ kpc'[p] # "kalloc_ref") =>
               /\ kloc'[p].ret = kloc[p].r
               /\ kloc[p].r \notin Handed
               /\ cnt'[kloc[p].r] = 1]_vars

\* C9 witness: every frame is handed out, and a process that has got frames before has
\* been told 0 by its last kalloc.
C9_Witness ==
  /\ Cardinality(Handed) = NFrames
  /\ freelist = << >>
  /\ \E p \in Procs : kpages[p] # {} /\ kpc[p] = "idle" /\ kloc[p].ret = NoFrame

\* ------------------------------------------------------------------ bucket lists
\* how often buffer b occurs in the bucket lists
Occurrences(b) ==
  Cardinality({ij \in Buckets \X (1..PoolMax) :
                 ij[2] <= Len(buckets[ij[1]]) /\ buckets[ij[1]][ij[2]] = b})

\* the thread has taken b from the pool (line 99) and not yet linked it (line 106)
Linking(t, b) == pc[t] = "fresh_init" /\ loc[t].b = b /\ locks[loc[t].idx] = t

\* the thread has unlinked its victim b (line 143) and not yet linked it again (line 148)
Moving(t, b) == pc[t] \in {"mv_acq", "mv_link"} /\ loc[t].b = b /\ hashlock = t

\* C11 as stated: every claimed buffer is in the list of exactly one bucket, in every
\* state, the states inside a move between buckets included.
C11_Original == \A b \in Claimed : Occurrences(b) = 1

\* C11 as amended: a claimed buffer is never in two lists, and it is in no list only
\* between lines 99 and 106 of the thread that claims it and between lines 143 and 148 of
\* the thread that moves it, which holds hashlock.
C11_Amended ==
  \A b \in Claimed :
    /\ Occurrences(b) <= 1
    /\ Occurrences(b) = 0 => \E t \in Threads : Linking(t, b) \/ Moving(t, b)

\* C11 witness: a victim has left its old bucket and waits for the lock of its new one,
\* while the other buffer of the pool is in its list.
C11_Witness ==
  \E t \in Threads :
    /\ pc[t] = "mv_acq"
    /\ Occurrences(loc[t].b) = 0
    /\ \E b \in Claimed : b # loc[t].b /\ Occurrences(b) = 1

\* ------------------------------------------------------------------ callers that break the rule
\* The callers of this specification pass any claimed buffer to bwrite and brelse, held or
\* not; they do not pin.
MisuseCall(t) ==
  \/ \E dev \in Devs, blockno \in Blocks :
       calls[t] < MaxCalls /\ held[t] = {} /\ bread(t, dev, blockno)
  \/ \E b \in Bufs : bwrite(t, b)
  \/ \E b \in Bufs : brelse(t, b)

MisuseNext == \E t \in Threads : MisuseCall(t) \/ InBread(t) \/ InBrelse(t)

SpecMisuse == Init /\ [][MisuseNext]_vars

\* C12: brelse(b) and bwrite(b) by a thread that does not hold b's content lock end in
\* panic; b's refcnt, timestamp and key, the bucket lists and the holder of the content
\* lock stay as they are, and no disk write is issued.
C12_FatalMisuse ==
  [][\A t \in Threads, b \in Bufs :
       (sleeplock[b] # t /\ (brelse(t, b) \/ bwrite(t, b))) =>
         /\ pc'[t] = "panic"
         /\ buf'[b] = buf[b]
         /\ buckets' = buckets
         /\ sleeplock' = sleeplock
         /\ writes' = writes
         /\ held' = held]_vars

\* C12 witness: a thread has panicked outside bget, on a buffer whose content lock
\* another thread holds.
C12_Witness ==
  \E t \in Threads, u \in Threads, b \in Claimed :
    /\ pc[t] = "panic" /\ hashlock # t
    /\ u # t /\ sleeplock[b] = u /\ b \in held[u]
    /\ writes[b] = 0

\* ------------------------------------------------------------------ cow_copy without memory
\* cow_copy was called (or is being called) on a shared frame when no frame was free
CowStarved(l) == l.op = "cow" /\ l.cnt0 > 1 /\ ~l.free0

\* C13: cow_copy on a frame with cnt > 1, with the free list empty, returns 0; the entry
\* (frame, PTE_V, PTE_COW, PTE_W), the old frame's count and the free list are in every
\* step of the call what they were at the call.
C13_AllocFailure ==
  [][\A p \in Procs :
       (CowStarved(kloc[p]) \/ CowStarved(kloc'[p])) =>
         /\ pte' = pte
         /\ cnt' = cnt
         /\ freelist' = freelist
         /\ pte[p].v /\ pte[p].cow
         /\ kloc[p].op = "cow" =>
              /\ pte[p].pa = kloc[p].pa
              /\ cnt[kloc[p].pa] = kloc[p].cnt0
              /\ kpc'[p] \in {"kalloc_pop", "idle"}
              /\ kpc'[p] = "idle" => kloc'[p].ret = NoFrame]_vars

\* C13 witness: cow_copy on a frame with count 2 has found the frame shared and is at its
\* kalloc, with the free list empty since the call.
C13_Witness ==
  \E p \in Procs :
    /\ kpc[p] = "kalloc_pop"
    /\ CowStarved(kloc[p])
    /\ freelist = << >>
    /\ cnt[pte[p].pa] = 2

\* ------------------------------------------------------------------ lock discipline
\* the bucket locks a thread holds
BucketLocksOf(t) == {i \in Buckets : locks[i] = t}

\* C14: no thread ever holds two bucket locks; a thread that takes a bucket lock, in the
\* move (line 146) or in the round-robin scan (line 119) or anywhere else, holds no bucket
\* lock when it takes it.
C14_OneBucketLock ==
  /\ [](\A t \in Threads : Cardinality(BucketLocksOf(t)) <= 1)
  /\ [][\A t \in Threads, i \in Buckets :
          (locks[i] # t /\ locks'[i] = t) => BucketLocksOf(t) = {}]_vars

\* C14 witness: a thread that has scanned one bucket and released its lock holds the lock
\* of the next bucket, and nothing else but hashlock.
C14_Witness ==
  \E t \in Threads :
    /\ pc[t] = "ev_scan"
    /\ loc[t].i > 0
    /\ BucketLocksOf(t) = {loc[t].idx}
    /\ hashlock = t

\* C14 witness, the move: the thread holds the destination's lock only.
C14_WitnessMove ==
  \E t \in Threads :
    /\ pc[t] = "mv_link"
    /\ BucketLocksOf(t) = {loc[t].idx}

\* ------------------------------------------------------------------ victim selection
\* the buffers of a list that nobody references
Unreferenced(list) == {j \in 1..Len(list) : buf[list[j]].refcnt = 0}

\* the step of thread t scans a bucket and re-keys a buffer of it (lines 137-140)
Evicts(t) == pc[t] = "ev_scan" /\ pc'[t] \in {"mv_acq", "sleep_acq"} /\ inits' # inits

\* the step of thread t scans a bucket and leaves it without a victim (lines 155-157)
PassesBy(t) == pc[t] = "ev_scan" /\ pc'[t] \in {"ev_acq", "panic"}

\* C15: the eviction scan visits the buckets in round-robin order from HASH(blockno); it
\* passes a bucket by only if no buffer of its list has refcnt = 0, and otherwise takes
\* from it the refcnt = 0 buffer with the smallest timestamp, the first in list order
\* among equal timestamps.
C15_VictimPolicy ==
  [][\A t \in Threads :
       LET list == buckets[loc[t].idx]
           v == loc'[t].b
       IN /\ pc[t] = "ev_scan" =>
               /\ loc[t].i < NBUCKET
               /\ loc[t].idx = (HASH(loc[t].blockno) + loc[t].i) % NBUCKET
          /\ PassesBy(t) => Unreferenced(list) = {}
          /\ Evicts(t) =>
               /\ \E j \in Unreferenced(list) :
                    /\ list[j] = v
                    /\ \A k \in Unreferenced(list) :
                         \/ k = j
                         \/ buf[v].timestamp < buf[list[k]].timestamp
                         \/ buf[v].timestamp = buf[list[k]].timestamp /\ j < k
               /\ <<buf'[v].dev, buf'[v].blockno>> = <<loc[t].dev, loc[t].blockno>>
               /\ \A b \in Bufs : b # v => buf'[b] = buf[b]]_vars

\* C15 witness: a victim has been re-keyed and unlinked while an unreferenced buffer with
\* a younger timestamp stays behind in the bucket it was taken from.
C15_Witness ==
  \E t \in Threads, i \in Buckets :
    /\ pc[t] = "mv_acq"
    /\ i # loc[t].idx
    /\ \E j \in Unreferenced(buckets[i]) :
         buf[buckets[i][j]].timestamp > buf[loc[t].b].timestamp

\* ------------------------------------------------------------------ panic("bget: no buffers")
\* the step in which thread t leaves the loop of lines 117-158 for line 172
GivesUp(t) == pc[t] = "ev_scan" /\ pc'[t] = "panic"

\* C16: bget reaches panic("bget: no buffers") only when no claimed buffer has refcnt = 0.
C16_PanicOnlyWhenExhausted ==
  [][\A t \in Threads : GivesUp(t) => \A b \in Claimed : buf[b].refcnt # 0]_vars

\* ------------------------------------------------------------------ hash consistency
InList(list, b) == \E j \in 1..Len(list) : list[j] = b

\* the step in which brelse, bpin or bunpin changes the refcnt of its buffer
ChangesRef(t) == pc[t] \in {"brelse_dec", "bpin_inc", "bunpin_dec"} /\ pc'[t] = "idle"

\* C18: while bucket i's lock is free every buffer of bucket i's list has
\* blockno mod NBUCKET = i; and when brelse, bpin or bunpin changes the refcnt of a
\* referenced buffer the thread holds the lock of the bucket whose list has the buffer.
C18_HashConsistent ==
  /\ [](\A i \in Buckets :
          locks[i] = NoThread =>
            \A j \in 1..Len(buckets[i]) : buf[buckets[i][j]].blockno % NBUCKET = i)
  /\ [][\A t \in Threads :
          ChangesRef(t) =>
            /\ buf[loc[t].b].refcnt > 0
            /\ buf'[loc[t].b].refcnt # buf[loc[t].b].refcnt
            /\ locks[loc[t].idx] = t
            /\ InList(buckets[loc[t].idx], loc[t].b)
            /\ \A i \in Buckets : InList(buckets[i], loc[t].b) => i = loc[t].idx]_vars

\* C18 witness: a thread is about to change a refcnt under its bucket's lock while another
\* thread links a re-keyed victim into the other bucket.
C18_Witness ==
  \E t \in Threads, u \in Threads :
    /\ pc[t] = "mv_link"
    /\ pc[u] \in {"brelse_dec", "bpin_inc", "bunpin_dec"}
    /\ locks[loc[u].idx] = u
    /\ InList(buckets[loc[u].idx], loc[u].b)

\* ------------------------------------------------------------------ concurrent cow_copy
\* A frame is allocated, mapped, written and shared, one call at a time
\* (script.phase = "share"); when k >= 2 processes map it copy-on-write, its count is k and
\* k frames are free, the owners start to fault ("race"): each of them runs cow_copy on
\* its mapping, in any interleaving.
Owners == {q \in Procs : pte[q].v}

CowStart ==
  /\ script.phase = "share"
  /\ \A q \in Procs : kpc[q] = "idle" /\ kpages[q] = {}
  /\ Cardinality(Owners) >= 2
  /\ \E f \in Frames :
       /\ \A q \in Owners : pte[q].pa = f /\ pte[q].cow
       /\ cnt[f] = Cardinality(Owners)
       /\ Len(freelist) >= Cardinality(Owners)
       /\ script' = [phase |-> "race", pa |-> f, val |-> data[f], owners |-> Owners]
  /\ UNCHANGED <<biovars, nbuf, kvars>>

Sharing(p) == script.phase = "share" /\ Alone(p)
Faulting == script.phase = "race"

CowShare(p) ==
  \/ Sharing(p) /\ kalloc(p)
  \/ Sharing(p) /\ kalloc_pop(p)
  \/ Sharing(p) /\ kalloc_ref(p)
  \/ Sharing(p) /\ \E f \in Frames : Map(p, f)
  \/ Sharing(p) /\ \E val \in UserVals : Store(p, val)
  \/ Sharing(p) /\ \E q \in Procs : krefpage(p, q)

CowFault(p) ==
  \/ Faulting /\ cow_copy(p)
  \/ Faulting /\ cow_chk(p)
  \/ Faulting /\ kalloc_pop(p)
  \/ Faulting /\ kalloc_ref(p)
  \/ Faulting /\ cow_map(p)
  \/ Faulting /\ kfree_dec(p)
  \/ Faulting /\ kfree_push(p)

CowNext == CowStart \/ \E p \in Procs : CowShare(p) \/ CowFault(p)

CowInit == BioInit /\ nbuf = NBUF /\ script = [phase |-> "share"] /\ kinit

SpecCowRace == CowInit /\ [][CowNext]_vars

\* every owner's cow_copy has returned
CowSettled ==
  /\ script.phase = "race"
  /\ \A q \in script.owners : kpc[q] = "idle" /\ ~cow_check(q)

\* C17: when the k >= 2 owners of a shared frame p (cnt = k) have all run cow_copy, in any
\* interleaving and with k frames free, each owner maps a frame with cnt = 1 writable and
\* without PTE_COW, no two owners map the same frame, each owner's frame has the contents
\* p had, and p is either mapped by exactly one owner with cnt = 1 or once on the free
\* list with cnt = 0.
C17_ConcurrentCow ==
  CowSettled =>
    LET p == script.pa
        keepers == {q \in script.owners : pte[q].pa = p}
    IN /\ \A q \in script.owners :
            /\ pte[q].v /\ pte[q].w /\ ~pte[q].cow
            /\ cnt[pte[q].pa] = 1
            /\ data[pte[q].pa] = script.val
            /\ ~OnFreeList(pte[q].pa)
       /\ \A q \in script.owners, r \in script.owners : q # r => pte[q].pa # pte[r].pa
       /\ \/ Cardinality(keepers) = 1 /\ cnt[p] = 1 /\ ~OnFreeList(p)
          \/ /\ keepers = {} /\ cnt[p] = 0
             /\ Cardinality({j \in 1..Len(freelist) : freelist[j] = p}) = 1

\* C17 witness: every owner has copied, and the shared frame, which held user data, is
\* back on the free list.
C17_Witness ==
  /\ CowSettled
  /\ script.val \in UserVals
  /\ OnFreeList(script.pa)
  /\ \A q \in script.owners : pte[q].pa # script.pa

\* C17, the other end: the last owner has kept the shared frame.
C17_WitnessKeeper ==
  /\ CowSettled
  /\ \E q \in script.owners : pte[q].pa = script.pa

\* ------------------------------------------------------------------ free-list integrity
\* frame f is in a caller's hands: returned by kalloc and kept, mapped, popped by a kalloc
\* that has not returned yet, or the old frame of a cow_copy in progress
HeldBy(p, f) ==
  \/ f \in kpages[p]
  \/ pte[p].v /\ pte[p].pa = f
  \/ kpc[p] \in {"kalloc_ref", "cow_map"} /\ kloc[p].r = f
  \/ kpc[p] \in {"cow_chk", "kalloc_pop", "kalloc_ref", "cow_map"} /\ kloc[p].op = "cow" /\ kloc[p].pa = f

Pushers(f) == {p \in Procs : kpc[p] = "kfree_push" /\ kloc[p].fr = f}

\* the step in which the kalloc of process p (its own or cow_copy's) hands over its frame
Hands(p) == kpc[p] = "kalloc_ref" /\ kpc'[p] # "kalloc_ref"

\* C20: no frame is twice on the free list; a frame on the free list has cnt = 0 and is in
\* no caller's hands; of the owners that call kfree on a frame at most one pushes it, and
\* not while it is on the list; kalloc hands out no frame that another caller holds.
C20_FreeListIntegrity ==
  /\ [](/\ \A i \in 1..Len(freelist), j \in 1..Len(freelist) :
             i # j => freelist[i] # freelist[j]
        /\ \A f \in Frames :
             /\ OnFreeList(f) => cnt[f] = 0 /\ \A p \in Procs : ~HeldBy(p, f)
             /\ Cardinality(Pushers(f)) <= 1
             /\ Pushers(f) # {} => ~OnFreeList(f) /\ cnt[f] = 0)
  /\ [][\A p \in Procs :
          Hands(p) => \A q \in Procs : q # p => ~HeldBy(q, kloc[p].r)]_vars

\* C20 witness: a frame that was shared has had its count taken to 0 by the second kfree
\* of its owners; that kfree alone is about to push it.
C20_Witness ==
  \E f \in Frames :
    /\ nkref[f] >= 1 /\ nkfree[f] = nkref[f] + 1
    /\ Cardinality(Pushers(f)) = 1
    /\ ~OnFreeList(f)
    /\ \E q \in Procs : q \notin Pushers(f) /\ kpc[q] = "kalloc_ref"

\* ------------------------------------------------------------------ progress
\* Fairness: a thread inside an operation goes on whenever it can (weak fairness of its
\* steps; an acquire is a step that needs the lock free), and a thread that has a buffer
\* from bread comes to call brelse.
Releases(t) == \E b \in held[t] : brelse(t, b)

Fairness == \A t \in Threads : WF_vars(Inside(t)) /\ SF_vars(Releases(t))

\* the clock stands still: no step of the cache waits for it
LiveNext == \E t \in Threads : Call(t) \/ Inside(t)

SpecLive == Init /\ [][LiveNext]_vars /\ Fairness

\* thread t is inside bget, and bget has returned to bread
InBget(t) ==
  pc[t] \in {"bget_acq", "bget_scan", "pool_acq", "pool_chk", "fresh_init", "hash_acq",
             "ev_acq", "ev_scan", "mv_acq", "mv_link", "sleep_acq"}
BgetDone(t) == pc[t] \in {"bread_chk", "idle"}

\* the thread that holds the lock t waits for, NoThread when t does not wait
WaitsFor(t) ==
  CASE pc[t] \in {"bget_acq", "ev_acq", "mv_acq", "brelse_acq", "bpin_acq", "bunpin_acq"} ->
         locks[loc[t].idx]
    [] pc[t] = "pool_acq" -> lock
    [] pc[t] = "hash_acq" -> hashlock
    [] pc[t] = "sleep_acq" -> sleeplock[loc[t].b]
    [] OTHER -> NoThread

\* the n-th thread of the chain of waiting that starts at t
RECURSIVE Follow(_, _)
Follow(t, n) ==
  IF n = 0 THEN t
  ELSE IF Follow(t, n - 1) = NoThread THEN NoThread
       ELSE WaitsFor(Follow(t, n - 1))

NoWaitCycle == \A t \in Threads : \A n \in 1..NThreads : Follow(t, n) # t

====
